---- MODULE Spec2Model ----
(***************************************************************************)
(* A model of ijroi.py: read_roi, the decoder of ImageJ's binary ROI       *)
(* record, and read_roi_zip, which decodes every member of a zip archive.  *)
(*                                                                         *)
(* A record is a sequence of bytes (0..255).  read_roi is modelled         *)
(* statement by statement: the cursor helpers get8/get16/get32/getfloat    *)
(* are operators over (bytes, position), every statement of read_roi is a  *)
(* step Do<Statement>(m) over the call's state m, and each action of the   *)
(* specification applies one step.  numpy's fixed-width conversions are    *)
(* modelled with the semantics of the numpy releases the code was written  *)
(* for: a Python int stored into an int16 array keeps its low 16 bits.     *)
(* A float32 is carried as its 32-bit pattern [f32 |-> bits]; float32      *)
(* addition is left uninterpreted ([fadd |-> <<a, b>>]).  The 32-bit       *)
(* fields of the records decoded here stay below 2^31, the largest number  *)
(* TLC computes with.                                                      *)
(***************************************************************************)
EXTENDS Integers, Sequences, FiniteSets, TLC

VARIABLES
    data,               \* the bytes behind fileobj
    pos,                \* fileobj's read position
    pc,                 \* the statement read_roi is at
    idx,                \* the header field read next (index in HeaderFields)
    hdr,                \* the header locals read so far: name -> value
    subPixelResolution, \* the local of line 104
    points,             \* the points array of the point-list branch
    result,             \* what the call returned or raised
    archive,            \* read_roi_zip: the zip file's members, in order
    zi,                 \* read_roi_zip: the member the comprehension is at
    zout,               \* read_roi_zip: the pairs collected so far
    zresult,            \* read_roi_zip: what it returned or raised
    zpc                 \* read_roi_zip: its position

vars == <<data, pos, pc, idx, hdr, subPixelResolution, points, result,
          archive, zi, zout, zresult, zpc>>

roiVars == <<data, pos, pc, idx, hdr, subPixelResolution, points, result>>
zipVars == <<archive, zi, zout, zresult, zpc>>

(***************************************************************************)
(* Bounds of the model.                                                    *)
(***************************************************************************)
MaxCoords == 2      \* n_coordinates ranges over 0..MaxCoords
MaxEntries == 2     \* a zip archive holds at most MaxEntries members

(***************************************************************************)
(* Constants of read_roi.                                                  *)
(***************************************************************************)
SUB_PIXEL_RESOLUTION == 128
POLYGON == 0
RECT == 1
OVAL == 2
FREEHAND == 7
TRACED == 8
POINT == 10
SubPixelVersion == 222
MagicLen == 4

Magic == <<73, 111, 117, 116>>      \* b'Iout'

Min(a, b) == IF a < b THEN a ELSE b
Max(a, b) == IF a < b THEN b ELSE a

(***************************************************************************)
(* Python's integer operators <<, | and &.                                 *)
(***************************************************************************)
Shl(a, k) == a * 2^k

RECURSIVE BitOr(_, _)
BitOr(a, b) ==
    IF a = 0 THEN b
    ELSE IF b = 0 THEN a
    ELSE (IF a % 2 = 1 \/ b % 2 = 1 THEN 1 ELSE 0) + 2 * BitOr(a \div 2, b \div 2)

RECURSIVE BitAnd(_, _)
BitAnd(a, b) ==
    IF a = 0 \/ b = 0 THEN 0
    ELSE (IF a % 2 = 1 /\ b % 2 = 1 THEN 1 ELSE 0) + 2 * BitAnd(a \div 2, b \div 2)

(***************************************************************************)
(* numpy: a Python int stored with dtype int16 keeps its low 16 bits, read *)
(* as a two's complement number.                                           *)
(***************************************************************************)
Int16(v) == ((v + 32768) % 65536) - 32768

(***************************************************************************)
(* The cursor helpers.  A read over bytes d at position p yields           *)
(* [ok |-> TRUE, val, pos] or, when fileobj.read(1) returns nothing,       *)
(* [ok |-> FALSE, pos]: the IOError of get8, with the position reached.    *)
(***************************************************************************)
\* mutant: past the end a read yields a zero byte
Get8ZeroAtEof(d, p) ==
    IF p >= Len(d)
    THEN [ok |-> TRUE, val |-> 0, pos |-> p + 1]
    ELSE [ok |-> TRUE, val |-> d[p + 1], pos |-> p + 1]

Get8(d, p) ==
    IF p >= Len(d)
    THEN [ok |-> FALSE, pos |-> p]
    ELSE [ok |-> TRUE, val |-> d[p + 1], pos |-> p + 1]

\* mutant: the low byte first
Get16LittleEndian(d, p) ==
    LET b0 == Get8(d, p) IN
    IF ~b0.ok THEN b0
    ELSE LET b1 == Get8(d, b0.pos) IN
         IF ~b1.ok THEN b1
         ELSE [ok |-> TRUE, val |-> BitOr(Shl(b1.val, 8), b0.val), pos |-> b1.pos]

Get16(d, p) ==
    LET b0 == Get8(d, p) IN
    IF ~b0.ok THEN b0
    ELSE LET b1 == Get8(d, b0.pos) IN
         IF ~b1.ok THEN b1
         ELSE [ok |-> TRUE, val |-> BitOr(Shl(b0.val, 8), b1.val), pos |-> b1.pos]

Get32(d, p) ==
    LET s0 == Get16(d, p) IN
    IF ~s0.ok THEN s0
    ELSE LET s1 == Get16(d, s0.pos) IN
         IF ~s1.ok THEN s1
         ELSE [ok |-> TRUE, val |-> BitOr(Shl(s0.val, 16), s1.val), pos |-> s1.pos]

\* np.int32(v).view(np.float32): the float32 whose bit pattern is v's 32 bits
GetFloat(d, p) ==
    LET v == Get32(d, p) IN
    IF ~v.ok THEN v
    ELSE [ok |-> TRUE, val |-> [f32 |-> v.val], pos |-> v.pos]

Getter(kind, d, p) ==
    CASE kind = "get8" -> Get8(d, p)
      [] kind = "get16" -> Get16(d, p)
      [] kind = "get32" -> Get32(d, p)
      [] kind = "getfloat" -> GetFloat(d, p)

\* [getc() for i in range(n)]: n successive reads; the first failure ends it
RECURSIVE GetList(_, _, _, _)
GetList(kind, d, p, n) ==
    IF n = 0 THEN [ok |-> TRUE, val |-> <<>>, pos |-> p]
    ELSE LET v == Getter(kind, d, p) IN
         IF ~v.ok THEN v
         ELSE LET rest == GetList(kind, d, v.pos, n - 1) IN
              IF ~rest.ok THEN rest
              ELSE [ok |-> TRUE, val |-> <<v.val>> \o rest.val, pos |-> rest.pos]

\* fileobj.read(k): the bytes left, at most k of them
ReadBytes(d, p, k) == SubSeq(d, p + 1, Min(p + k, Len(d)))

(***************************************************************************)
(* The header: the locals of lines 71-98 in the order they are read, each  *)
(* with the helper that reads it.                                          *)
(***************************************************************************)
F(name, get) == [name |-> name, get |-> get]

HeaderFields == <<
    F("version", "get16"), F("roi_type", "get8"), F("discard", "get8"),
    F("top", "get16"), F("left", "get16"), F("bottom", "get16"),
    F("right", "get16"), F("n_coordinates", "get16"),
    F("x1", "getfloat"), F("y1", "getfloat"), F("x2", "getfloat"),
    F("y2", "getfloat"), F("stroke_width", "get16"),
    F("shape_roi_size", "get32"), F("stroke_color", "get32"),
    F("fill_color", "get32"), F("subtype", "get16"), F("options", "get16"),
    F("arrow_style", "get8"), F("arrow_head_size", "get8"),
    F("rect_arc_size", "get16"), F("position", "get32"),
    F("header2offset", "get32") >>

Width(get) == IF get = "get8" THEN 1 ELSE IF get = "get16" THEN 2 ELSE 4

SupportedTypes == {FREEHAND, TRACED, POLYGON, RECT, POINT}

(***************************************************************************)
(* Outcomes of a call.                                                     *)
(***************************************************************************)
NoResult == [kind |-> "none"]
Raise(e) == [kind |-> "raise", exc |-> e]
UnexpectedEof == Raise("IOError: readroi: Unexpected EOF")
BadMagic == Raise("ValueError: Magic number not found")
UnsupportedRoiType == Raise("NotImplementedError: ROI type not supported")
UnsupportedSubtype == Raise("NotImplementedError: ROI subtype not supported")
FileObjNameError == Raise("NameError: name 'file_obj' is not defined")
Array(dtype, rows) == [kind |-> "array", dtype |-> dtype, rows |-> rows]

(***************************************************************************)
(* The state of one call of read_roi, as a record, and the statements of   *)
(* read_roi as steps over it.                                              *)
(***************************************************************************)
EmptyHdr == [x \in {} |-> 0]

Start(d) ==
    [data |-> d, pos |-> 0, pc |-> "magic", idx |-> 1, hdr |-> EmptyHdr,
     subPixelResolution |-> FALSE, points |-> <<>>, result |-> NoResult]

Fail(m, p, e) == [m EXCEPT !.pos = p, !.pc = "done", !.result = e]

Return(m, v) == [m EXCEPT !.pc = "done", !.result = v]

\* lines 68-70
DoReadMagic(m) ==
    LET magic == ReadBytes(m.data, m.pos, MagicLen)
        p == m.pos + Len(magic)
    IN  IF magic # Magic
        THEN Fail(m, p, BadMagic)
        ELSE [m EXCEPT !.pos = p, !.pc = "header"]

\* one of the assignments of lines 71-98
DoReadField(m) ==
    LET f == HeaderFields[m.idx]
        r == Getter(f.get, m.data, m.pos)
    IN  IF ~r.ok
        THEN Fail(m, r.pos, UnexpectedEof)
        ELSE [m EXCEPT
                !.pos = r.pos,
                !.hdr = IF f.name = "discard" THEN @ ELSE (f.name :> r.val) @@ @,
                !.idx = @ + 1,
                !.pc = IF m.idx = Len(HeaderFields) THEN "check" ELSE "header"]

\* mutant: the option bit alone decides
SubPixelNoVersionGate(options, version) ==
    BitAnd(options, SUB_PIXEL_RESOLUTION) # 0

\* line 104
SubPixel(options, version) ==
    (BitAnd(options, SUB_PIXEL_RESOLUTION) # 0) /\ (version >= SubPixelVersion)

\* mutant: the subtype is checked before the type
DoCheckSubtypeFirst(m) ==
    LET sub == SubPixel(m.hdr["options"], m.hdr["version"])
        n == [m EXCEPT !.subPixelResolution = sub]
    IN  IF m.hdr["subtype"] # 0
        THEN Return(n, UnsupportedSubtype)
        ELSE IF m.hdr["roi_type"] \notin SupportedTypes
        THEN Return(n, UnsupportedRoiType)
        ELSE [n EXCEPT !.pc = "dispatch"]

\* lines 104-112
DoCheckExceptions(m) ==
    LET sub == SubPixel(m.hdr["options"], m.hdr["version"])
        n == [m EXCEPT !.subPixelResolution = sub]
    IN  IF m.hdr["roi_type"] \notin SupportedTypes
        THEN Return(n, UnsupportedRoiType)
        ELSE IF m.hdr["subtype"] # 0
        THEN Return(n, UnsupportedSubtype)
        ELSE [n EXCEPT !.pc = "dispatch"]

\* mutant: the rectangle test comes first
BranchRectFirst(shape_roi_size, roi_type) ==
    IF roi_type = RECT THEN "rect"
    ELSE IF shape_roi_size > 0 THEN "composite"
    ELSE "alloc"

\* the branch taken by the tests of lines 115, 148 and 158
Branch(shape_roi_size, roi_type) ==
    IF shape_roi_size > 0 THEN "composite"
    ELSE IF roi_type = RECT THEN "rect"
    ELSE "alloc"

DoDispatch(m) ==
    [m EXCEPT !.pc = Branch(m.hdr["shape_roi_size"], m.hdr["roi_type"])]

\* line 116: file_obj is not a name of the function (its parameter is
\* fileobj) nor of the module, so evaluating it raises NameError and
\* lines 117-145 are never reached
DoComposite(m) == Return(m, FileObjNameError)

FAdd(a, b) == [fadd |-> <<a, b>>]

\* lines 148-156
RectPoints(h, sub) ==
    IF sub
    THEN Array("float32",
               << <<h["y1"], h["x1"]>>,
                  <<h["y1"], FAdd(h["x1"], h["x2"])>>,
                  <<FAdd(h["y1"], h["y2"]), FAdd(h["x1"], h["x2"])>>,
                  <<FAdd(h["y1"], h["y2"]), h["x1"]>> >>)
    ELSE Array("int16",
               << <<Int16(h["top"]), Int16(h["left"])>>,
                  <<Int16(h["top"]), Int16(h["right"])>>,
                  <<Int16(h["bottom"]), Int16(h["right"])>>,
                  <<Int16(h["bottom"]), Int16(h["left"])>> >>)

DoRect(m) == Return(m, RectPoints(m.hdr, m.subPixelResolution))

\* the local getc and the dtype of points (lines 159-160, 163-164)
Getc(sub) == IF sub THEN "getfloat" ELSE "get16"
DType(sub) == IF sub THEN "float32" ELSE "int16"

\* mutant: no seek
SeekNothing(p, offset) == p

\* fileobj.seek(4*n_coordinates, 1): the position moves, nothing is read and
\* the end of the data is no limit
SeekRelative(p, offset) == p + offset

\* lines 158-164; np.empty leaves the rows unset
DoAlloc(m) ==
    [m EXCEPT
        !.points = [i \in 1..m.hdr["n_coordinates"] |-> <<"unset", "unset">>],
        !.pos = IF m.subPixelResolution
                THEN SeekRelative(@, 4 * m.hdr["n_coordinates"])
                ELSE @,
        !.pc = "col1"]

\* a value stored into an array of the dtype
Store(dtype, v) == IF dtype = "int16" THEN Int16(v) ELSE v

\* points[:, c] = [getc() for i in range(n_coordinates)], c the numpy column
ReadColumn(m, c, next) ==
    LET r == GetList(Getc(m.subPixelResolution), m.data, m.pos,
                     m.hdr["n_coordinates"])
        dt == DType(m.subPixelResolution)
    IN  IF ~r.ok
        THEN Fail(m, r.pos, UnexpectedEof)
        ELSE [m EXCEPT
                !.pos = r.pos,
                !.points = [i \in DOMAIN @ |->
                              [@[i] EXCEPT ![c + 1] = Store(dt, r.val[i])]],
                !.pc = next]

\* line 166
DoCol1(m) == ReadColumn(m, 1, "col0")

\* line 167
DoCol0(m) == ReadColumn(m, 0, "offset")

\* points[:, c] += v on an int16 array
AddColumn(pts, c, v) ==
    [i \in DOMAIN pts |-> [pts[i] EXCEPT ![c + 1] = Int16(@ + v)]]

\* lines 169-173
Offset(pts, sub, top, left) ==
    IF ~sub THEN AddColumn(AddColumn(pts, 1, left), 0, top) ELSE pts

DoOffset(m) ==
    Return(m, Array(DType(m.subPixelResolution),
                    Offset(m.points, m.subPixelResolution,
                           m.hdr["top"], m.hdr["left"])))

\* read_roi's next statement
Step(m) ==
    CASE m.pc = "magic" -> DoReadMagic(m)
      [] m.pc = "header" -> DoReadField(m)
      [] m.pc = "check" -> DoCheckExceptions(m)
      [] m.pc = "dispatch" -> DoDispatch(m)
      [] m.pc = "composite" -> DoComposite(m)
      [] m.pc = "rect" -> DoRect(m)
      [] m.pc = "alloc" -> DoAlloc(m)
      [] m.pc = "col1" -> DoCol1(m)
      [] m.pc = "col0" -> DoCol0(m)
      [] m.pc = "offset" -> DoOffset(m)

\* read_roi run to its end
RECURSIVE Run(_)
Run(m) == IF m.pc = "done" THEN m ELSE Run(Step(m))

\* read_roi(BytesIO(d)): what the call returns or raises
ReadRoi(d) == Run(Start(d)).result

(***************************************************************************)
(* The records the model decodes: a header written field by field in the   *)
(* layout read_roi reads, what follows it, and a cut at some length.       *)
(***************************************************************************)
U16(v) == <<v \div 256, v % 256>>
U32(v) == U16(v \div 65536) \o U16(v % 65536)

\* the bit pattern of the float32 with the exponent and mantissa fields
FloatBits(e, mant) == e * 2^23 + mant
F32Zero == FloatBits(0, 0)
F32One == FloatBits(127, 0)
F32Two == FloatBits(128, 0)
F32Three == FloatBits(128, 2^22)
F32Four == FloatBits(129, 0)
F32Five == FloatBits(129, 2^21)

HeaderBytes(magic, version, roi_type, b, n, shape, subtype, options) ==
    magic \o U16(version) \o <<roi_type, 0>>
    \o U16(b.top) \o U16(b.left) \o U16(b.bottom) \o U16(b.right)
    \o U16(n)
    \o U32(F32One) \o U32(F32Two) \o U32(F32Three) \o U32(F32Four)
    \o U16(1) \o U32(shape) \o U32(255) \o U32(0)
    \o U16(subtype) \o U16(options)
    \o <<0, 0>> \o U16(0) \o U32(0) \o U32(0)

HeaderLen == Len(HeaderBytes(Magic, 0, 0,
                 [top |-> 0, left |-> 0, bottom |-> 0, right |-> 0], 0, 0, 0, 0))

\* the coordinate block of a point list: enough for the sub-pixel layout of
\* MaxCoords points; its seventh byte makes the 16-bit value there exceed
\* 32767
CoordBytes ==
    [i \in 1..(12 * MaxCoords) |-> IF i = 7 THEN 156 ELSE (37 * i + 11) % 128]

\* the shape data of a composite ROI: two paths of one segment each, each
\* closed by the opcode 4:  0, 2, 3, 4,  1, 5, 2, 4
SegmentFloats ==
    <<F32Zero, F32Two, F32Three, F32Four, F32One, F32Five, F32Two, F32Four>>

RECURSIVE FloatBytes(_)
FloatBytes(fs) == IF fs = <<>> THEN <<>> ELSE U32(Head(fs)) \o FloatBytes(Tail(fs))

Magics == {Magic, <<73, 111, 117, 117>>}
Versions == {SubPixelVersion - 1, SubPixelVersion}
RoiTypes == {POLYGON, RECT, OVAL, FREEHAND, TRACED, POINT}
BoundsSet == {[top |-> 3, left |-> 2, bottom |-> 7, right |-> 9],
              [top |-> 40000, left |-> 2, bottom |-> 40010, right |-> 32768]}
Counts == 0..MaxCoords
ShapeSizes == {0, Len(SegmentFloats)}
Subtypes == {0, 1}
OptionSets == {0, SUB_PIXEL_RESOLUTION}
FullLen == HeaderLen + 12 * MaxCoords
Lengths == {0, 3, 4, 33, HeaderLen - 1, HeaderLen, HeaderLen + 3, HeaderLen + 6,
            FullLen, HeaderLen + 4 * Len(SegmentFloats)}

Cut(d, len) == SubSeq(d, 1, Min(len, Len(d)))

Record(magic, version, roi_type, b, n, shape, subtype, options) ==
    HeaderBytes(magic, version, roi_type, b, n, shape, subtype, options)
    \o (IF shape > 0 THEN FloatBytes(SegmentFloats) ELSE CoordBytes)

\* every header with the magic, and a few with a wrong one
Inputs ==
    { Cut(Record(Magic, version, roi_type, b, n, shape, subtype, options), len) :
        version \in Versions, roi_type \in RoiTypes,
        b \in BoundsSet, n \in Counts, shape \in ShapeSizes,
        subtype \in Subtypes, options \in OptionSets, len \in Lengths }
    \cup
    { Cut(Record(magic, SubPixelVersion, roi_type, b, 1, 0, 0, 0), len) :
        magic \in Magics, roi_type \in RoiTypes, b \in BoundsSet,
        len \in Lengths }

(***************************************************************************)
(* read_roi, one action per statement.                                     *)
(***************************************************************************)
M == [data |-> data, pos |-> pos, pc |-> pc, idx |-> idx, hdr |-> hdr,
      subPixelResolution |-> subPixelResolution, points |-> points,
      result |-> result]

Becomes(n) ==
    /\ data' = n.data
    /\ pos' = n.pos
    /\ pc' = n.pc
    /\ idx' = n.idx
    /\ hdr' = n.hdr
    /\ subPixelResolution' = n.subPixelResolution
    /\ points' = n.points
    /\ result' = n.result

ReadMagic == pc = "magic" /\ Becomes(DoReadMagic(M)) /\ UNCHANGED zipVars
ReadField == pc = "header" /\ Becomes(DoReadField(M)) /\ UNCHANGED zipVars
CheckExceptions == pc = "check" /\ Becomes(DoCheckExceptions(M)) /\ UNCHANGED zipVars
Dispatch == pc = "dispatch" /\ Becomes(DoDispatch(M)) /\ UNCHANGED zipVars
Composite == pc = "composite" /\ Becomes(DoComposite(M)) /\ UNCHANGED zipVars
Rect == pc = "rect" /\ Becomes(DoRect(M)) /\ UNCHANGED zipVars
Alloc == pc = "alloc" /\ Becomes(DoAlloc(M)) /\ UNCHANGED zipVars
Col1 == pc = "col1" /\ Becomes(DoCol1(M)) /\ UNCHANGED zipVars
Col0 == pc = "col0" /\ Becomes(DoCol0(M)) /\ UNCHANGED zipVars
AddOffsets == pc = "offset" /\ Becomes(DoOffset(M)) /\ UNCHANGED zipVars

ReadRoiStep ==
    \/ ReadMagic
    \/ ReadField
    \/ CheckExceptions
    \/ Dispatch
    \/ Composite
    \/ Rect
    \/ Alloc
    \/ Col1
    \/ Col0
    \/ AddOffsets

\* read_roi called on one record
Init ==
    /\ data \in Inputs
    /\ pos = 0
    /\ pc = "magic"
    /\ idx = 1
    /\ hdr = EmptyHdr
    /\ subPixelResolution = FALSE
    /\ points = <<>>
    /\ result = NoResult
    /\ archive = <<>>
    /\ zi = 0
    /\ zout = <<>>
    /\ zresult = NoResult
    /\ zpc = "nozip"

Next == ReadRoiStep

Spec == Init /\ [][Next]_vars

(***************************************************************************)
(* read_roi_zip (lines 176-178).  A zip file is the sequence of its        *)
(* members [name, bytes]; zipfile's namelist() gives the members' names in *)
(* order, and read(name) looks the name up in the file's name table, in    *)
(* which a later member replaces an earlier one of the same name.          *)
(***************************************************************************)
Namelist(zf) == [i \in DOMAIN zf |-> zf[i].name]

ZfRead(zf, name) ==
    LET last == CHOOSE i \in DOMAIN zf :
                    /\ zf[i].name = name
                    /\ \A j \in DOMAIN zf : zf[j].name = name => j <= i
    IN  zf[last].bytes

Small == [top |-> 3, left |-> 2, bottom |-> 7, right |-> 9]

ZipPayloads ==
    { Record(Magic, SubPixelVersion - 1, RECT, Small, 0, 0, 0, 0),
      Record(Magic, SubPixelVersion - 1, POLYGON, Small, 1, 0, 0, 0),
      Record(Magic, SubPixelVersion, POINT, Small, 1, Len(SegmentFloats), 0, 0),
      <<>> }

ZipNames == {"a.roi", "b.roi"}

Members == [name : ZipNames, bytes : ZipPayloads]

Archives == UNION { [1..k -> Members] : k \in 0..MaxEntries }

\* the comprehension takes its next name and calls read_roi(BytesIO(zf.read(n)))
ZipCall ==
    /\ zpc = "loop"
    /\ zi <= Len(archive)
    /\ Becomes(Start(ZfRead(archive, Namelist(archive)[zi])))
    /\ zpc' = "call"
    /\ UNCHANGED <<archive, zi, zout, zresult>>

\* the call is over: its exception leaves read_roi_zip, its value is paired
\* with the name
ZipCollect ==
    /\ zpc = "call"
    /\ pc = "done"
    /\ IF result.kind = "raise"
       THEN /\ zresult' = result
            /\ zpc' = "done"
            /\ UNCHANGED <<zi, zout>>
       ELSE /\ zout' = Append(zout, <<Namelist(archive)[zi], result>>)
            /\ zi' = zi + 1
            /\ zpc' = "loop"
            /\ UNCHANGED zresult
    /\ UNCHANGED <<archive, roiVars>>

ZipReturn ==
    /\ zpc = "loop"
    /\ zi > Len(archive)
    /\ zresult' = [kind |-> "list", pairs |-> zout]
    /\ zpc' = "done"
    /\ UNCHANGED <<archive, zi, zout, roiVars>>

InitZip ==
    /\ archive \in Archives
    /\ zi = 1
    /\ zout = <<>>
    /\ zresult = NoResult
    /\ zpc = "loop"
    /\ data = <<>>
    /\ pos = 0
    /\ pc = "idle"
    /\ idx = 1
    /\ hdr = EmptyHdr
    /\ subPixelResolution = FALSE
    /\ points = <<>>
    /\ result = NoResult

NextZip == ZipCall \/ ReadRoiStep \/ ZipCollect \/ ZipReturn

SpecZip == InitZip /\ [][NextZip]_vars

(***************************************************************************)
(* The wire format, read off the bytes without the decoder: the claims     *)
(* below are stated against it.                                            *)
(***************************************************************************)
RECURSIVE BigEndian(_)
BigEndian(bytes) ==
    IF bytes = <<>> THEN 0
    ELSE 256 * BigEndian(SubSeq(bytes, 1, Len(bytes) - 1)) + bytes[Len(bytes)]

\* the unsigned big-endian number in the w bytes at offset off
At(d, off, w) == BigEndian(SubSeq(d, off + 1, off + w))

HasMagic(d) == Len(d) >= 4 /\ SubSeq(d, 1, 4) = <<73, 111, 117, 116>>
FullHeader(d) == HasMagic(d) /\ Len(d) >= 64
WireVersion(d) == At(d, 4, 2)
WireType(d) == At(d, 6, 1)
WireTop(d) == At(d, 8, 2)
WireLeft(d) == At(d, 10, 2)
WireBottom(d) == At(d, 12, 2)
WireRight(d) == At(d, 14, 2)
WireCount(d) == At(d, 16, 2)
WireShapeSize(d) == At(d, 36, 4)
WireSubtype(d) == At(d, 48, 2)
WireOptions(d) == At(d, 50, 2)
WireSubPixelBit(d) == (WireOptions(d) \div 128) % 2 = 1

\* a record the decoder accepts: magic, full header, supported type, subtype 0
Accepted(d) ==
    /\ FullHeader(d)
    /\ WireType(d) \in {0, 1, 7, 8, 10}
    /\ WireSubtype(d) = 0

PointListRecord(d) ==
    Accepted(d) /\ WireType(d) \in {0, 7, 8, 10} /\ WireShapeSize(d) = 0

RectRecord(d) == Accepted(d) /\ WireType(d) = 1 /\ WireShapeSize(d) = 0

SubPixelOff(d) == ~(WireSubPixelBit(d) /\ WireVersion(d) >= 222)

IsArray(r, dtype, rows) ==
    /\ r.kind = "array"
    /\ r.dtype = dtype
    /\ r.rows = rows

IsRaise(r, e) == r.kind = "raise" /\ r = e

\* two outcomes of read_roi are the same result or the same error
SameOutcome(a, b) ==
    /\ a.kind = b.kind
    /\ a.kind = "raise" => a.exc = b.exc
    /\ a.kind = "array" => a.dtype = b.dtype /\ a.rows = b.rows

(***************************************************************************)
(* C1.  A composite record (supported type, subtype 0, shape_roi_size > 0) *)
(* whose shape data is two line segments, each closed by the opcode 4, is  *)
(* decoded to exactly two point sequences, each point the wire pair (x, y) *)
(* reversed to (y, x).  The shape data of the model's composite records is *)
(* 0 2 3 4 1 5 2 4: the points (x, y) = (2, 3) and (5, 2).                 *)
(***************************************************************************)
CompositeRecord(d) ==
    /\ Accepted(d)
    /\ WireShapeSize(d) = 8
    /\ Len(d) = 64 + 32
    /\ [i \in 1..8 |-> At(d, 64 + 4 * (i - 1), 4)] = SegmentFloats

TwoSegments ==
    << << <<[f32 |-> F32Three], [f32 |-> F32Two]>> >>,
       << <<[f32 |-> F32Two], [f32 |-> F32Five]>> >> >>

C1_CompositeTwoSegments ==
    (pc = "done" /\ CompositeRecord(data))
        => (result.kind = "segments" /\ result.segments = TwoSegments)

(***************************************************************************)
(* C2.  A valid point-list record without sub-pixel resolution is decoded  *)
(* to n_coordinates rows, row i being (top + raw_y_i, left + raw_x_i) with *)
(* the unsigned 16-bit values of the record.                               *)
(***************************************************************************)
RawX(d, i) == At(d, 64 + 2 * (i - 1), 2)
RawY(d, i) == At(d, 64 + 2 * WireCount(d) + 2 * (i - 1), 2)

IntegerPointList(d) ==
    /\ PointListRecord(d)
    /\ SubPixelOff(d)
    /\ Len(d) >= 64 + 4 * WireCount(d)

C2_PointListRows ==
    (pc = "done" /\ IntegerPointList(data))
        => IsArray(result, "int16",
                   [i \in 1..WireCount(data) |->
                       <<WireTop(data) + RawY(data, i),
                         WireLeft(data) + RawX(data, i)>>])

(***************************************************************************)
(* C3.  A valid rectangle record with sub-pixel resolution off is decoded  *)
(* to the 4 points [top,left], [top,right], [bottom,right], [bottom,left]  *)
(* with the values of the header's fields.                                 *)
(***************************************************************************)
C3_RectCorners ==
    (pc = "done" /\ RectRecord(data) /\ SubPixelOff(data))
        => IsArray(result, "int16",
                   << <<WireTop(data), WireLeft(data)>>,
                      <<WireTop(data), WireRight(data)>>,
                      <<WireBottom(data), WireRight(data)>>,
                      <<WireBottom(data), WireLeft(data)>> >>)

C2_Witness ==
    /\ pc = "done"
    /\ IntegerPointList(data)
    /\ WireCount(data) = 2
    /\ result.kind = "array"

C3_Witness ==
    /\ pc = "done"
    /\ RectRecord(data)
    /\ SubPixelOff(data)
    /\ result.kind = "array"

(***************************************************************************)
(* C4.  As claimed: every input shorter than the 64-byte header fails with *)
(* UnexpectedEof.                                                          *)
(***************************************************************************)
C4_TruncatedIsEof ==
    (pc = "done" /\ Len(data) < 64) => IsRaise(result, UnexpectedEof)

(***************************************************************************)
(* C4, amended.  An input shorter than the 64-byte header never yields a   *)
(* result: the call fails with UnexpectedEof when the input starts with    *)
(* the 4 magic bytes, and with BadMagic when it does not (it is shorter    *)
(* than 4 bytes, or its first 4 bytes are not "Iout").                     *)
(***************************************************************************)
C4_TruncatedFails ==
    Len(data) < 64 =>
        /\ result.kind \in {"none", "raise"}
        /\ pc = "done" =>
              IF HasMagic(data)
              THEN IsRaise(result, UnexpectedEof)
              ELSE IsRaise(result, BadMagic)

C4_Witness ==
    /\ pc = "done"
    /\ Len(data) = 63
    /\ HasMagic(data)
    /\ IsRaise(result, UnexpectedEof)

(***************************************************************************)
(* C5.  A record with the magic and a full 64-byte header whose roi_type   *)
(* is not one of Polygon 0, Rect 1, Freehand 7, Traced 8, Point 10 fails   *)
(* with UnsupportedRoiType, whatever its subtype, shape_roi_size, options  *)
(* and trailing bytes; nothing after the header has been read by then.     *)
(***************************************************************************)
C5_UnsupportedType ==
    (pc = "done" /\ FullHeader(data) /\ WireType(data) \notin {0, 1, 7, 8, 10})
        => (IsRaise(result, UnsupportedRoiType) /\ pos = 64)

C5_Witness ==
    /\ pc = "done"
    /\ FullHeader(data)
    /\ WireType(data) = 2
    /\ WireSubtype(data) # 0
    /\ WireShapeSize(data) > 0
    /\ WireSubPixelBit(data)
    /\ Len(data) > 64
    /\ IsRaise(result, UnsupportedRoiType)

(***************************************************************************)
(* C6.  With version < 222, the record and the record that differs from it *)
(* only in the SubPixelResolution option bit (128) have the same outcome:  *)
(* the same result or the same error.                                      *)
(***************************************************************************)
FlipSubPixelBit(d) ==
    [d EXCEPT ![52] = IF (@ \div 128) % 2 = 1 THEN @ - 128 ELSE @ + 128]

C6_VersionGate ==
    (pc = "done" /\ Len(data) >= 52 /\ WireVersion(data) < 222)
        => SameOutcome(result, ReadRoi(FlipSubPixelBit(data)))

C6_Witness ==
    /\ pc = "done"
    /\ PointListRecord(data)
    /\ WireVersion(data) < 222
    /\ WireSubPixelBit(data)
    /\ WireCount(data) > 0
    /\ result.kind = "array"
    /\ SameOutcome(result, ReadRoi(FlipSubPixelBit(data)))

(***************************************************************************)
(* C8.  Dispatch is first-match in the order composite, rectangle, point   *)
(* list: a record with a supported type, subtype 0 and shape_roi_size > 0  *)
(* goes to the composite branch and to no other, so it never returns the   *)
(* 4 rectangle corners nor the n_coordinates x 2 point array, whatever its *)
(* roi_type.                                                               *)
(***************************************************************************)
C8_CompositeFirst ==
    (Accepted(data) /\ WireShapeSize(data) > 0)
        => /\ pc \notin {"rect", "alloc", "col1", "col0", "offset"}
           /\ result.kind # "array"
           /\ pc = "done" => pos = 64

C8_Witness ==
    /\ pc = "done"
    /\ Accepted(data)
    /\ WireShapeSize(data) > 0
    /\ WireType(data) = 1
    /\ result.kind = "raise"

(***************************************************************************)
(* C9.  A point-list record with sub-pixel resolution active (option bit   *)
(* 128 and version >= 222): the 4 * n_coordinates bytes after the header   *)
(* are skipped, the next n_coordinates 32-bit values are the columns (x)   *)
(* and the n_coordinates after them the rows (y), and neither left nor top *)
(* is added.  When the data ends before that, the call fails with          *)
(* UnexpectedEof at the first read that finds no byte: the position is     *)
(* then the end of the data, or the target of the skip when that lies      *)
(* beyond the end.                                                         *)
(***************************************************************************)
FloatX(d, i) == [f32 |-> At(d, 64 + 4 * WireCount(d) + 4 * (i - 1), 4)]
FloatY(d, i) == [f32 |-> At(d, 64 + 8 * WireCount(d) + 4 * (i - 1), 4)]

SubPixelPointList(d) ==
    /\ PointListRecord(d)
    /\ WireSubPixelBit(d)
    /\ WireVersion(d) >= 222

C9_SubPixelPoints ==
    (pc = "done" /\ SubPixelPointList(data))
        => IF Len(data) >= 64 + 12 * WireCount(data)
           THEN /\ IsArray(result, "float32",
                           [i \in 1..WireCount(data) |->
                               <<FloatY(data, i), FloatX(data, i)>>])
                /\ pos = 64 + 12 * WireCount(data)
           ELSE /\ IsRaise(result, UnexpectedEof)
                /\ pos = Max(Len(data), 64 + 4 * WireCount(data))

C9_Witness ==
    /\ pc = "done"
    /\ SubPixelPointList(data)
    /\ WireCount(data) = 2
    /\ result.kind = "array"
    /\ result.rows[2] = <<FloatY(data, 2), FloatX(data, 2)>>

(***************************************************************************)
(* C10.  Every read of the cursor (get8, get16, get32, getfloat) that      *)
(* returns a value has advanced the position by its width (1, 2, 4, 4)     *)
(* and the value is the big-endian number of exactly those bytes; a read   *)
(* that needs more bytes than remain raises the EOF error and no value is  *)
(* stored.  Stated for the reads of the header fields.                     *)
(***************************************************************************)
Bits(get, v) == IF get = "getfloat" THEN v.f32 ELSE v

C10_CursorReads ==
    [][pc = "header" =>
        LET f == HeaderFields[idx]
            w == Width(f.get)
        IN  IF pos + w <= Len(data)
            THEN /\ pos' = pos + w
                 /\ result' = NoResult
                 /\ f.name # "discard" =>
                      /\ DOMAIN hdr' = DOMAIN hdr \cup {f.name}
                      /\ Bits(f.get, hdr'[f.name]) = At(data, pos, w)
                      /\ \A k \in DOMAIN hdr : hdr'[k] = hdr[k]
            ELSE /\ IsRaise(result', UnexpectedEof)
                 /\ pc' = "done"
                 /\ pos' = Len(data)
                 /\ hdr' = hdr]_vars

C10_Witness ==
    /\ pc = "done"
    /\ Len(data) = 33
    /\ pos = 33
    /\ IsRaise(result, UnexpectedEof)
    /\ DOMAIN hdr = {"version", "roi_type", "top", "left", "bottom", "right",
                     "n_coordinates", "x1", "y1", "x2"}
    /\ hdr["x2"] = [f32 |-> At(data, 26, 4)]
    /\ hdr["top"] = 40000

(***************************************************************************)
(* C7.  read_roi_zip either fails as a whole or returns one pair           *)
(* (entry name, read_roi of that entry's bytes) per archive entry, in the  *)
(* archive's order; it fails whenever the decoding of some entry fails.    *)
(***************************************************************************)
EntryOutcome(i) == ReadRoi(archive[i].bytes)

C7_PerEntry ==
    zpc = "done" =>
        IF \E i \in DOMAIN archive : EntryOutcome(i).kind = "raise"
        THEN zresult.kind = "raise"
        ELSE /\ zresult.kind = "list"
             /\ Len(zresult.pairs) = Len(archive)
             /\ \A i \in DOMAIN archive :
                   /\ zresult.pairs[i][1] = archive[i].name
                   /\ SameOutcome(zresult.pairs[i][2], EntryOutcome(i))

\* the claim's case with distinct entry names: every entry decoded on its own
C7_Witness ==
    /\ zpc = "done"
    /\ Len(archive) = 2
    /\ archive[1].name # archive[2].name
    /\ archive[1].bytes # archive[2].bytes
    /\ zresult.kind = "list"
    /\ \A i \in DOMAIN archive :
          /\ zresult.pairs[i][1] = archive[i].name
          /\ SameOutcome(zresult.pairs[i][2], EntryOutcome(i))

====
